---- MODULE Spec2Model ----
(***************************************************************************)
(* Model of the historical-to-live handover of the indexer:                *)
(* reindexSourceGroup (src/unnamed/part_000), the chain and its provider,  *)
(* the two historical request queues and the live block request queue.     *)
(***************************************************************************)
EXTENDS Integers, Sequences, FiniteSets, TLC

\* ------------------------------------------------------------------ bounds
MaxBlock == 3          \* highest block number the chain reaches (Spec)
MaxStart == 1          \* the configured startBlock is in 0..MaxStart (Spec)
MaxLimit == 2          \* blockLimit is in 1..MaxLimit (Spec)
MaxBlockHashes == 1    \* distinct block hashes in one eth_getLogs answer
MaxFailures == 5       \* failures of the latest-block request in one call (Spec)
MaxCalls == 2          \* the initial start plus the hot reloads (SpecReload)
ReloadMaxBlock == 2    \* highest block number the chain reaches (SpecReload)
PlanMaxBlock == 5      \* highest latest block drawn by InitPlan (SpecPlan)
PlanMaxStart == 3      \* highest startBlock drawn by InitPlan (SpecPlan)
PlanMaxLimit == 3      \* highest blockLimit drawn by InitPlan (SpecPlan)

\* ---------------------------------------------------------------- constants
\* `null!` / `undefined`: no block number.
Null == -1
\* "at most N attempts (default 5)" of the RPC gateway.
RpcMaxAttempts == 5

Calls == 1..MaxCalls

VARIABLES
    chainHead,          \* latest block number of the chain
    lastEmitted,        \* last block number the provider announced ("block")
    listeners,          \* the provider's "block" listeners: calls, in order of attachment
    nextCall,           \* number of calls of reindexSourceGroup made so far
    startBlock,         \* sourceGroup.startBlock
    blockLimit,         \* sourceGroup.blockLimit
    endBlock,           \* the contract's configured endBlock, Null when unset
    chainId,            \* sourceGroup.chainId
    pc,                 \* per call: where reindexSourceGroup stands
    attempts,           \* per call: latest-block requests issued by the retry loop
    currentBlockNumber, \* per call: the local currentBlockNumber
    cachedBlockRange,   \* per call: the answer of cacheStore.getCachedBlockRange
    blockRanges,        \* per call: the local blockRanges
    pushed,             \* per call: tasks pushed to historicalLogsRequestQueue, in order
    logsPending,        \* per call: indices of pushed logs tasks not yet completed
    blocksPending,      \* per call: historical block tasks not yet completed
    livePaused,         \* per call: liveBlockRequestQueue is paused
    liveQueue,          \* per call: block numbers waiting in liveBlockRequestQueue
    logQueue,           \* <<call, blockNumber>> of the live block tasks processed
    args,               \* the arguments of the configuration function being applied
    result,             \* what that function returned or threw
    sent,               \* the transports the resolved request function has sent a request to
    queued,             \* per historical queue, the tasks waiting in it
    running,            \* per historical queue, the tasks whose worker is running
    chainLogs,          \* the blocks of the chain that hold a log matching the source
    cachedLogs,         \* the blocks whose matching logs are in the cache
    cachedBlocks,       \* the blocks that are in the cache
    intervals,          \* the stored synced intervals of the source
    recorded,           \* the blocks of every interval recordInterval was called with
    logsTasks,          \* the logs tasks of the slices, with the block tasks they wait for
    aborted,            \* the historical fetcher has been shut down
    canonical,          \* the events of the sources on the canonical chains
    fetched,            \* per source: events its cursor of the event stream holds or held
    dispatched,         \* per source: events handed to its indexing function
    checkpoint,         \* per source: <<blockNumber, logIndex>> of the last commit
    lastCall,           \* the most recent call of an indexing function
    setups,             \* calls of the "setup" indexing function so far
    reorgs              \* reorgs handled so far

\* The state of reindexSourceGroup, its queues, the chain and the provider.
pipeline == <<chainHead, lastEmitted, listeners, nextCall, startBlock, blockLimit,
              endBlock, chainId, pc, attempts, currentBlockNumber, cachedBlockRange,
              blockRanges, pushed, logsPending, blocksPending, livePaused,
              liveQueue, logQueue>>

\* The state outside reindexSourceGroup.
\* The two historical request queues.
pool == <<queued, running>>

\* The cache store and the tasks that fill it.
cache == <<chainLogs, cachedLogs, cachedBlocks, intervals, recorded, logsTasks, aborted>>

\* The event stream and the dispatcher.
stream == <<canonical, fetched, dispatched, checkpoint, lastCall, setups, reorgs>>

others == <<args, result, sent, pool, cache, stream>>

vars == <<pipeline, others>>

config == <<startBlock, blockLimit, endBlock, chainId>>

\* ------------------------------------------------------------------ helpers
Min(a, b) == IF a <= b THEN a ELSE b

Max(a, b) == IF a >= b THEN a ELSE b

SeqRange(s) == {s[i] : i \in 1..Len(s)}

\* The blocks of a range <<from, to>>.
Blocks(r) == r[1]..r[2]

BlocksOf(rs) == UNION {Blocks(rs[i]) : i \in 1..Len(rs)}

\* [a, b] minus [c, d], by ordered sweep: the part below c, then the part above d.
p1_excluding_p2(p1, p2) ==
    LET a == p1[1]
        b == p1[2]
        c == p2[1]
        d == p2[2]
        left == IF a < c THEN <<(<<a, Min(b, c - 1)>>)>> ELSE <<>>
        right == IF d < b THEN <<(<<Max(a, d + 1), b>>)>> ELSE <<>>
    IN IF c > b \/ d < a THEN <<p1>> ELSE left \o right

\* The answers of cacheStore.getCachedBlockRange over blocks 0..n: none (<<>>),
\* or <<maxStartBlock, minEndBlock>>.
CachedRanges(n) == {<<>>} \cup {r \in (0..n) \X (0..n) : r[1] <= r[2]}

\* --------------------------------------------------- reindexSourceGroup, pure
\* A reload that leaves the old listeners attached.
KeepListeners(ls) == ls

\* provider.removeAllListeners("block")
RemoveAllListeners(ls) == <<>>

\* A loop that gives up after RpcMaxAttempts requests.
GiveUpAfterMaxAttempts(n) == IF n >= RpcMaxAttempts THEN "rpcUnavailable" ELSE "latest"

\* `while (!isCurrentBlockRequestSuccessful)` after a failed request: the catch
\* block logs, clears the flag and the loop issues the request again.
AfterLatestBlockFailure(n) == "latest"

\* A plan that takes the cached range minus the requested range.
BlockRangesSwapped(requestedStartBlock, requestedEndBlock, cached) ==
    IF cached # <<>>
    THEN p1_excluding_p2(cached, <<requestedStartBlock, requestedEndBlock>>)
    ELSE <<(<<requestedStartBlock, requestedEndBlock>>)>>

\* A plan that never looks at the cached range.
BlockRangesIgnoringCache(requestedStartBlock, requestedEndBlock, cached) ==
    <<(<<requestedStartBlock, requestedEndBlock>>)>>

\* The required block ranges: the requested range minus the cached range, the
\* whole requested range when the cache store reports none.
BlockRanges(requestedStartBlock, requestedEndBlock, cached) ==
    IF cached # <<>>
    THEN p1_excluding_p2(<<requestedStartBlock, requestedEndBlock>>, cached)
    ELSE <<(<<requestedStartBlock, requestedEndBlock>>)>>

\* The first toBlock and each next one: Math.min(fromBlock + blockLimit, endBlock)
ToBlock(fromBlock, limit, rangeEnd) == Min(fromBlock + limit, rangeEnd)

\* The loop `while (fromBlock < endBlock)`: the tasks it pushes, in order.
RECURSIVE SliceLoop(_, _, _, _)
SliceLoop(fromBlock, toBlock, rangeEnd, limit) ==
    IF fromBlock < rangeEnd
    THEN <<(<<fromBlock, toBlock>>)>>
         \o SliceLoop(toBlock + 1, ToBlock(toBlock + 1, limit, rangeEnd), rangeEnd, limit)
    ELSE <<>>

\* The tasks pushed for one block range.
SliceRange(blockRange, limit) ==
    SliceLoop(blockRange[1], ToBlock(blockRange[1], limit, blockRange[2]),
              blockRange[2], limit)

\* `for (const blockRange of blockRanges)`: all tasks pushed, in order.
RECURSIVE PushAll(_, _)
PushAll(ranges, limit) ==
    IF ranges = <<>> THEN <<>>
    ELSE SliceRange(Head(ranges), limit) \o PushAll(Tail(ranges), limit)

\* historicalLogsRequestQueue.idle()
LogsQueueIdle(c) == logsPending[c] = {}

\* A handover that does not wait for the block queue.
BlockQueueNotAwaited(c) == TRUE

\* A block queue whose drain is never reported.
BlockQueueNeverDrained(c) == FALSE

\* historicalBlockRequestQueue.idle()
BlockQueueIdle(c) == blocksPending[c] = 0

\* The number of blocks that must pass before a block is considered final.
getFinalityBlockCount(id) ==
    CASE id \in {1, 3, 4, 5, 42, 11155111} -> 32
      [] id \in {10, 420} -> 5
      [] id \in {137, 80001} -> 100
      [] id \in {42161, 421613} -> 40
      [] id = 7777777 -> 5
      [] OTHER -> 5

\* ----------------------------------------------------------------- initial
InitCalls ==
    /\ listeners = <<>>
    /\ nextCall = 0
    /\ pc = [c \in Calls |-> "idle"]
    /\ attempts = [c \in Calls |-> 0]
    /\ currentBlockNumber = [c \in Calls |-> Null]
    /\ cachedBlockRange = [c \in Calls |-> <<>>]
    /\ blockRanges = [c \in Calls |-> <<>>]
    /\ pushed = [c \in Calls |-> <<>>]
    /\ logsPending = [c \in Calls |-> {}]
    /\ blocksPending = [c \in Calls |-> 0]
    /\ livePaused = [c \in Calls |-> FALSE]
    /\ liveQueue = [c \in Calls |-> <<>>]
    /\ logQueue = {}

\* The function of `args` has not been applied yet.
NoResult == [kind |-> "none"]

\* No configuration function is being applied.
\* reindexSourceGroup has not been called and no block has been mined.
InitIdle ==
    /\ chainHead = 0
    /\ lastEmitted = 0
    /\ startBlock = 0
    /\ blockLimit = 1
    /\ endBlock = Null
    /\ chainId = 1
    /\ InitCalls

\* The historical request queues: the logs queue and the block queue.
Queues == {"logs", "blocks"}

InitPool ==
    /\ queued = [q \in Queues |-> 0]
    /\ running = [q \in Queues |-> 0]

\* The sources of the event stream; "a" and "b" are on chain 1, "c" on chain 2.
SourceNames == {"a", "b", "c"}

\* No indexing function was called yet.
NoCall == [name |-> "none"]

\* No commit yet: block numbers start at 1.
NoCheckpoint == <<0, 0>>

InitStream ==
    /\ canonical = {}
    /\ fetched = [s \in SourceNames |-> 0]
    /\ dispatched = [s \in SourceNames |-> 0]
    /\ checkpoint = [s \in SourceNames |-> NoCheckpoint]
    /\ lastCall = NoCall
    /\ setups = 0
    /\ reorgs = 0

InitCache ==
    /\ chainLogs = {}
    /\ cachedLogs = {}
    /\ cachedBlocks = {}
    /\ intervals = {}
    /\ recorded = {}
    /\ logsTasks = {}
    /\ aborted = FALSE

InitOthers ==
    /\ args = <<>>
    /\ result = NoResult
    /\ sent = <<>>
    /\ InitPool
    /\ InitStream
    /\ InitCache

\* The configured endBlock: unset, or a block at or after startBlock.
EndBlocks(start, n) == {Null} \cup start..n

Init ==
    /\ chainHead = 0
    /\ lastEmitted = 0
    /\ startBlock \in 0..MaxStart
    /\ blockLimit \in 1..MaxLimit
    /\ endBlock \in EndBlocks(startBlock, MaxStart)
    /\ chainId = 1
    /\ InitCalls
    /\ InitOthers

\* One source group, restarted by hot reloads.
InitReload ==
    /\ chainHead = 0
    /\ lastEmitted = 0
    /\ startBlock = 0
    /\ blockLimit = 1
    /\ endBlock = Null
    /\ chainId = 1
    /\ InitCalls
    /\ InitOthers

\* The inputs of the request plan: the chain height, the source group's
\* startBlock, blockLimit and chainId, the contract's endBlock.
InitPlan ==
    /\ chainHead \in 0..PlanMaxBlock
    /\ lastEmitted = chainHead
    /\ startBlock \in 0..PlanMaxStart
    /\ blockLimit \in 1..PlanMaxLimit
    /\ endBlock \in {Null, startBlock, startBlock + 1}
    /\ chainId \in {1, 10}
    /\ InitCalls
    /\ InitOthers

\* ------------------------------------------------------------------ actions
\* The chain grows by one block.
Mine(maxBlock) ==
    /\ chainHead < maxBlock
    /\ chainHead' = chainHead + 1
    /\ UNCHANGED <<lastEmitted, listeners, nextCall, config, others, pc, attempts,
                   currentBlockNumber, cachedBlockRange, blockRanges, pushed,
                   logsPending, blocksPending, livePaused, liveQueue, logQueue>>

\* The provider emits "block" for the next block number: every attached
\* listener pushes { blockNumber } to its own liveBlockRequestQueue.
Notify ==
    /\ lastEmitted < chainHead
    /\ lastEmitted' = lastEmitted + 1
    /\ liveQueue' = [c \in Calls |->
                       IF c \in SeqRange(listeners)
                       THEN Append(liveQueue[c], lastEmitted + 1)
                       ELSE liveQueue[c]]
    /\ UNCHANGED <<chainHead, listeners, nextCall, config, others, pc, attempts,
                   currentBlockNumber, cachedBlockRange, blockRanges, pushed,
                   logsPending, blocksPending, livePaused, logQueue>>

\* reindexSourceGroup is entered (initial start, or a hot reload): everything up
\* to the first await. The old listeners are removed, the three queues are
\* created, the live queue is paused, the listener is attached and the
\* latest-block request is issued.
Enter(maxCalls) ==
    /\ nextCall < maxCalls
    /\ LET c == nextCall + 1 IN
        /\ nextCall' = c
        /\ listeners' = Append(RemoveAllListeners(listeners), c)
        /\ livePaused' = [livePaused EXCEPT ![c] = TRUE]
        /\ pc' = [pc EXCEPT ![c] = "latest"]
        /\ attempts' = [attempts EXCEPT ![c] = 1]
    /\ UNCHANGED <<chainHead, lastEmitted, config, others, currentBlockNumber,
                   cachedBlockRange, blockRanges, pushed, logsPending,
                   blocksPending, liveQueue, logQueue>>

\* provider.getBlock("latest") throws: the loop goes round and issues the
\* request again.
LatestBlockFail(c, maxFailures) ==
    /\ pc[c] = "latest"
    /\ attempts[c] <= maxFailures
    /\ pc' = [pc EXCEPT ![c] = AfterLatestBlockFailure(attempts[c])]
    /\ attempts' = [attempts EXCEPT ![c] =
                      IF AfterLatestBlockFailure(attempts[c]) = "latest"
                      THEN attempts[c] + 1 ELSE 0]
    /\ UNCHANGED <<chainHead, lastEmitted, listeners, nextCall, config, others,
                   currentBlockNumber, cachedBlockRange, blockRanges, pushed,
                   logsPending, blocksPending, livePaused, liveQueue, logQueue>>

\* A check that also rejects a start block equal to the latest block.
StartBlockNotBelowLatest(requestedStartBlock, latest) ==
    IF requestedStartBlock >= latest THEN "failed" ELSE "cache"

\* `if (requestedStartBlock > currentBlockNumber) throw`: the call fails, or
\* goes on to ask the cache store for the cached range.
AfterLatestBlock(requestedStartBlock, latest) ==
    IF requestedStartBlock > latest THEN "failed" ELSE "cache"

\* provider.getBlock("latest") answers: the loop ends; the start block is
\* checked against the latest block and the cached range is requested.
LatestBlockOk(c) ==
    /\ pc[c] = "latest"
    /\ currentBlockNumber' = [currentBlockNumber EXCEPT ![c] = chainHead]
    /\ attempts' = [attempts EXCEPT ![c] = 0]
    /\ pc' = [pc EXCEPT ![c] = AfterLatestBlock(startBlock, chainHead)]
    /\ UNCHANGED <<chainHead, lastEmitted, listeners, nextCall, config, others,
                   cachedBlockRange, blockRanges, pushed, logsPending,
                   blocksPending, livePaused, liveQueue, logQueue>>

\* cacheStore.getCachedBlockRange answers `cached`: the block ranges are built,
\* every logs task is pushed, and the waits begin (a queue that was pushed to is
\* not idle); with both historical queues idle the live queue is resumed at once.
Plan(c, cached) ==
    /\ pc[c] = "cache"
    /\ LET ranges == BlockRanges(startBlock, currentBlockNumber[c], cached)
           tasks == PushAll(ranges, blockLimit)
       IN
        /\ cachedBlockRange' = [cachedBlockRange EXCEPT ![c] = cached]
        /\ blockRanges' = [blockRanges EXCEPT ![c] = ranges]
        /\ pushed' = [pushed EXCEPT ![c] = tasks]
        /\ logsPending' = [logsPending EXCEPT ![c] = 1..Len(tasks)]
        /\ IF tasks # <<>>
           THEN /\ pc' = [pc EXCEPT ![c] = "waitLogs"]
                /\ UNCHANGED livePaused
           ELSE IF ~BlockQueueIdle(c)
           THEN /\ pc' = [pc EXCEPT ![c] = "waitBlocks"]
                /\ UNCHANGED livePaused
           ELSE /\ pc' = [pc EXCEPT ![c] = "done"]
                /\ livePaused' = [livePaused EXCEPT ![c] = FALSE]
    /\ UNCHANGED <<chainHead, lastEmitted, listeners, nextCall, config, others, attempts,
                   currentBlockNumber, blocksPending, liveQueue, logQueue>>

\* A historical logs task completes: its logs are written and one block task
\* is pushed for each of the n distinct block hashes of the answer.
LogsTaskDone(c, i, n) ==
    /\ i \in logsPending[c]
    /\ logsPending' = [logsPending EXCEPT ![c] = @ \ {i}]
    /\ blocksPending' = [blocksPending EXCEPT ![c] = @ + n]
    /\ UNCHANGED <<chainHead, lastEmitted, listeners, nextCall, config, others, pc,
                   attempts, currentBlockNumber, cachedBlockRange, blockRanges,
                   pushed, livePaused, liveQueue, logQueue>>

\* A historical block task completes.
BlockTaskDone(c) ==
    /\ blocksPending[c] > 0
    /\ blocksPending' = [blocksPending EXCEPT ![c] = @ - 1]
    /\ UNCHANGED <<chainHead, lastEmitted, listeners, nextCall, config, others, pc,
                   attempts, currentBlockNumber, cachedBlockRange, blockRanges,
                   pushed, logsPending, livePaused, liveQueue, logQueue>>

\* `await historicalLogsRequestQueue.drained()` returns: the block queue is
\* awaited unless idle, and then the live queue is resumed.
LogsDrained(c) ==
    /\ pc[c] = "waitLogs"
    /\ LogsQueueIdle(c)
    /\ IF ~BlockQueueIdle(c)
       THEN /\ pc' = [pc EXCEPT ![c] = "waitBlocks"]
            /\ UNCHANGED livePaused
       ELSE /\ pc' = [pc EXCEPT ![c] = "done"]
            /\ livePaused' = [livePaused EXCEPT ![c] = FALSE]
    /\ UNCHANGED <<chainHead, lastEmitted, listeners, nextCall, config, others, attempts,
                   currentBlockNumber, cachedBlockRange, blockRanges, pushed,
                   logsPending, blocksPending, liveQueue, logQueue>>

\* `await historicalBlockRequestQueue.drained()` returns: liveBlockRequestQueue.resume()
BlocksDrained(c) ==
    /\ pc[c] = "waitBlocks"
    /\ BlockQueueIdle(c)
    /\ pc' = [pc EXCEPT ![c] = "done"]
    /\ livePaused' = [livePaused EXCEPT ![c] = FALSE]
    /\ UNCHANGED <<chainHead, lastEmitted, listeners, nextCall, config, others, attempts,
                   currentBlockNumber, cachedBlockRange, blockRanges, pushed,
                   logsPending, blocksPending, liveQueue, logQueue>>

\* The live queue, not paused, processes its next block number and hands the
\* block's logs to logQueue.
LiveTaskDone(c) ==
    /\ ~livePaused[c]
    /\ liveQueue[c] # <<>>
    /\ logQueue' = logQueue \cup {<<c, Head(liveQueue[c])>>}
    /\ liveQueue' = [liveQueue EXCEPT ![c] = Tail(@)]
    /\ UNCHANGED <<chainHead, lastEmitted, listeners, nextCall, config, others, pc,
                   attempts, currentBlockNumber, cachedBlockRange, blockRanges,
                   pushed, logsPending, blocksPending, livePaused>>

\* Every step of the pipeline, for a chain of at most maxBlock blocks, at most
\* maxCalls calls of reindexSourceGroup, at most maxFailures failures of the
\* latest-block request per call, cached ranges within 0..maxCached and at most
\* maxHashes block hashes per eth_getLogs answer.
Step(maxBlock, maxCalls, maxFailures, maxCached, maxHashes) ==
    \/ Mine(maxBlock)
    \/ Notify
    \/ Enter(maxCalls)
    \/ \E c \in Calls : LatestBlockFail(c, maxFailures)
    \/ \E c \in Calls : LatestBlockOk(c)
    \/ \E c \in Calls : \E cached \in CachedRanges(maxCached) : Plan(c, cached)
    \/ \E c \in Calls : \E i \in 1..Len(pushed[c]) : \E n \in 0..maxHashes :
          LogsTaskDone(c, i, n)
    \/ \E c \in Calls : BlockTaskDone(c)
    \/ \E c \in Calls : LogsDrained(c)
    \/ \E c \in Calls : BlocksDrained(c)
    \/ \E c \in Calls : LiveTaskDone(c)

\* One start of the source group, no hot reload.
Next == Step(MaxBlock, 1, MaxFailures, MaxBlock, MaxBlockHashes)

Spec == Init /\ [][Next]_vars

\* The initial start followed by hot reloads.
NextReload == Step(ReloadMaxBlock, MaxCalls, 1, 0, 1)

SpecReload == InitReload /\ [][NextReload]_vars

\* The request plan alone: one call up to the pushes of its logs tasks.
NextPlan ==
    \/ Enter(1)
    \/ \E c \in Calls : LatestBlockOk(c)
    \/ \E c \in Calls : \E cached \in CachedRanges(PlanMaxBlock) : Plan(c, cached)

SpecPlan == InitPlan /\ [][NextPlan]_vars

\* ------------------------------------------------------------------ claims
\* The call has built its plan and pushed its logs tasks.
Planned(c) == pc[c] \in {"waitLogs", "waitBlocks", "done"}

\* Block numbers ever pushed to the call's live block request queue.
LivePushed(c) == SeqRange(liveQueue[c]) \cup {b \in 0..chainHead : <<c, b>> \in logQueue}

\* Blocks of the cached range reported to the call.
CachedBlocks(c) ==
    IF cachedBlockRange[c] = <<>> THEN {} ELSE Blocks(cachedBlockRange[c])

\* C1: the live queue is paused from the moment its listener is attached until
\* the call is done; it is resumed only with both historical queues idle, every
\* pushed logs task and every spawned block task completed; and no live block
\* task is processed before that.
C1_LivePausedUntilHistoricalDrained ==
    \A c \in Calls :
        /\ c \in SeqRange(listeners) => pc[c] # "idle"
        /\ pc[c] \in {"latest", "cache", "waitLogs", "waitBlocks", "failed"} =>
              /\ livePaused[c]
              /\ \A b \in 0..chainHead : <<c, b>> \notin logQueue
        /\ pc[c] = "done" => logsPending[c] = {} /\ blocksPending[c] = 0
        /\ pc[c] = "idle" => \A b \in 0..chainHead : <<c, b>> \notin logQueue

\* C1 witness: a call whose logs tasks spawned work is done and a block that was
\* queued by its listener has been processed.
C1_Witness ==
    \E c \in Calls :
        /\ pc[c] = "done"
        /\ pushed[c] # <<>>
        /\ \E b \in 0..chainHead : <<c, b>> \in logQueue

\* C2: once the logs tasks are pushed, every block from startBlock up to the
\* latest block read at backfill start, and every block announced since, lies
\* in the cached range, in a pushed slice, or was pushed to the live queue.
C2_NoBlockMissed ==
    \A c \in Calls :
        Planned(c) =>
            \A b \in startBlock..Max(currentBlockNumber[c], lastEmitted) :
                \/ b \in CachedBlocks(c)
                \/ b \in BlocksOf(pushed[c])
                \/ b \in LivePushed(c)

\* C3: the logs tasks pushed for each required block range are consecutive,
\* start at the range's first block and end at its last, so that they cover
\* exactly the range; and every pushed task belongs to one range.
C3_SlicesCoverRange ==
    \A c \in Calls :
        Planned(c) =>
            /\ \A k \in 1..Len(blockRanges[c]) :
                  \E i \in 1..Len(pushed[c]) : \E j \in i..Len(pushed[c]) :
                      /\ pushed[c][i][1] = blockRanges[c][k][1]
                      /\ pushed[c][j][2] = blockRanges[c][k][2]
                      /\ \A m \in i..j : pushed[c][m][1] <= pushed[c][m][2]
                      /\ \A m \in i..(j - 1) : pushed[c][m + 1][1] = pushed[c][m][2] + 1
            /\ BlocksOf(pushed[c]) = BlocksOf(blockRanges[c])

\* C4: every pushed logs task covers at most blockLimit blocks.
C4_SliceAtMostBlockLimit ==
    \A c \in Calls :
        \A i \in 1..Len(pushed[c]) :
            pushed[c][i][2] - pushed[c][i][1] + 1 <= blockLimit

\* C5: the scheduled block ranges are the requested range minus the cached
\* range: non-empty, in order, disjoint and not adjacent (so minimal in
\* number), their blocks exactly the requested blocks that are not cached; with
\* no cached range, the one range [requestedStartBlock, requestedEndBlock].
C5_RequiredRanges ==
    \A c \in Calls :
        Planned(c) =>
            LET rs == blockRanges[c]
                requested == startBlock..currentBlockNumber[c]
            IN /\ \A k \in 1..Len(rs) : rs[k][1] <= rs[k][2]
               /\ \A k \in 1..(Len(rs) - 1) : rs[k][2] + 1 < rs[k + 1][1]
               /\ BlocksOf(rs) = requested \ CachedBlocks(c)
               /\ cachedBlockRange[c] = <<>> =>
                     rs = <<(<<startBlock, currentBlockNumber[c]>>)>>

\* C5 witness: the cached range lies strictly inside the requested range, so
\* two ranges are scheduled.
C5_Witness ==
    \E c \in Calls :
        /\ Planned(c)
        /\ cachedBlockRange[c] # <<>>
        /\ startBlock < cachedBlockRange[c][1]
        /\ cachedBlockRange[c][2] < currentBlockNumber[c]
        /\ Len(blockRanges[c]) = 2

\* The end of the backfill range the claim C6 names, for a call that read tip.
SyncEndBlock(tip) ==
    LET finalizedTip == tip - getFinalityBlockCount(chainId)
    IN Min(IF endBlock # Null THEN endBlock ELSE finalizedTip, finalizedTip)

\* C6: no historical logs task is pushed for a block above
\* syncEndBlock = min(endBlock ?? finalizedTip, finalizedTip), with
\* finalizedTip = tip - finalityBlockCount at the moment backfill begins.
C6_NoTaskAboveSyncEndBlock ==
    \A c \in Calls :
        \A i \in 1..Len(pushed[c]) :
            pushed[c][i][2] <= SyncEndBlock(currentBlockNumber[c])

\* C7: a contract with an endBlock is not indexed in realtime: no block above
\* endBlock is fetched for it and no live block task is processed for it.
C7_EndBlockStopsIndexing ==
    endBlock # Null =>
        \A c \in Calls :
            /\ \A i \in 1..Len(pushed[c]) : pushed[c][i][2] <= endBlock
            /\ \A b \in 0..chainHead : <<c, b>> \notin logQueue

\* The cached range reported to the call covers its whole requested range.
CacheCoversRequest(c) ==
    /\ cachedBlockRange[c] # <<>>
    /\ cachedBlockRange[c][1] <= startBlock
    /\ currentBlockNumber[c] <= cachedBlockRange[c][2]

\* C8: when the cached range covers the whole requested range, no logs task is
\* pushed and the live queue is resumed in the same step, without a wait.
C8_CacheReuse ==
    \A c \in Calls :
        Planned(c) /\ CacheCoversRequest(c) =>
            /\ pushed[c] = <<>>
            /\ logsPending[c] = {}
            /\ pc[c] = "done"
            /\ ~livePaused[c]

\* C8 witness: a call that found its requested range of several blocks cached.
C8_Witness ==
    \E c \in Calls :
        /\ Planned(c)
        /\ CacheCoversRequest(c)
        /\ startBlock < currentBlockNumber[c]

\* C9: after every step, once reindexSourceGroup has been called, the provider
\* has exactly one "block" listener, that of the most recent call, and only the
\* live queue of the most recent call receives a block number.
C9_OneListener ==
    [][/\ nextCall' >= 1 => listeners' = <<nextCall'>>
       /\ \A c \in Calls :
             Len(liveQueue'[c]) > Len(liveQueue[c]) => c = nextCall]_vars

\* C9 witness: after a hot reload a block is announced to the new live queue
\* while the queue of the first call still holds its backlog.
C9_Witness ==
    /\ nextCall = 2
    /\ liveQueue[1] # <<>>
    /\ liveQueue[2] # <<>>

MaxTransports == 3

\* A url is the sequence of the labels it is made of; `includes` is the
\* substring test on it.
includes(url, label) == \E k \in DOMAIN url : url[k] = label

\* An absent (undefined) url or socket.
Undefined == <<>>

QuickNodeUrl == <<"https", "example", "quiknode", "pro">>
CloudflareUrl == <<"https", "cloudflare-eth", "com">>
PlainUrl == <<"https", "rpc", "example", "org">>
\* chain.rpcUrls.default.http[0] of a chain that has one.
ChainUrl == <<"https", "chain", "example", "org">>

\* An http or webSocket transport; `key` is its position in the fallback list
\* (1 when it is the network's only transport).
LeafTransport(type, url, key) ==
    [type |-> type, url |-> url, key |-> key, transports |-> <<>>]

\* The fallback lists of n transports.
FallbackLists(n) ==
    { [i \in 1..n |-> LeafTransport(ty[i], u[i], i)] :
        ty \in [1..n -> {"http", "webSocket"}],
        u \in [1..n -> {Undefined, PlainUrl}] }

\* The transports a network can be configured with: one http transport, one
\* webSocket transport, a fallback list, or a transport of an unknown type.
Transports(maxTransports) ==
    { LeafTransport(ty, u, 1) : ty \in {"http", "webSocket", "custom"},
                                u \in {Undefined, PlainUrl} }
    \cup { [type |-> "fallback", url |-> Undefined, key |-> 0, transports |-> ts] :
             ts \in UNION { FallbackLists(n) : n \in 1..maxTransports } }

\* getRequestForTransport({ transport, chain }): a request function bound to
\* one url or socket (to |-> the transport it belongs to), or a validation
\* error. chainUrl is chain.rpcUrls.default.http[0]; a webSocket transport's
\* url stands for its socket. A fallback transport resolves to the request
\* function of its first transport alone.
RECURSIVE getRequestForTransport(_, _)
getRequestForTransport(transport, chainUrl) ==
    CASE transport.type = "http" ->
           IF (IF transport.url # Undefined THEN transport.url ELSE chainUrl) = Undefined
           THEN [kind |-> "error", to |-> 0,
                 message |-> <<"Validation failed", "Unable to find a http transport URL">>]
           ELSE [kind |-> "request", to |-> transport.key]
      [] transport.type = "webSocket" ->
           IF transport.url = Undefined
           THEN [kind |-> "error", to |-> 0,
                 message |-> <<"Validation failed", "Unable to find a websocket transport url">>]
           ELSE [kind |-> "request", to |-> transport.key]
      [] transport.type = "fallback" ->
           getRequestForTransport(transport.transports[1], chainUrl)
      [] OTHER -> [kind |-> "error", to |-> 0,
                 message |-> <<"Validation failed", "Unknown transport">>]

\* The transports a request function sends one request to: the one it is
\* bound to. A failure of that transport is the failure of the request.
SentBy(request) == <<request.to>>

InitTransport ==
    /\ InitIdle
    /\ args \in [transport : Transports(MaxTransports),
                 chainUrl : {Undefined, ChainUrl},
                 down : SUBSET (1..MaxTransports)]
    /\ result = NoResult
    /\ sent = <<>>
    /\ InitPool
    /\ InitStream
    /\ InitCache

\* buildNetwork resolves the request function of the network.
GetRequestForTransport ==
    /\ result = NoResult
    /\ result' = getRequestForTransport(args.transport, args.chainUrl)
    /\ UNCHANGED <<pipeline, stream, args, sent, pool, cache>>

\* One request is made through the resolved request function.
SendRequest ==
    /\ result.kind = "request"
    /\ sent = <<>>
    /\ sent' = SentBy(result)
    /\ UNCHANGED <<pipeline, stream, args, result, pool, cache>>

NextTransport == GetRequestForTransport \/ SendRequest

SpecTransport == InitTransport /\ [][NextTransport]_vars

\* The transports of the fallback list a request was sent to.
Tried == {sent[k] : k \in DOMAIN sent}

\* C11: with a fallback transport over t1..tn, a request is sent to t(i+1) if
\* and only if it failed on every one of t1..ti.
C11_NextTransportTriedIffEarlierFailed ==
    (args.transport.type = "fallback" /\ sent # <<>>) =>
        \A i \in 1..(Len(args.transport.transports) - 1) :
            ((i + 1) \in Tried) <=> (\A j \in 1..i : j \in args.down)


\* ---------------------------------------------------------------------------
\* getDefaultMaxBlockRange: the default block range of eth_getLogs requests.
\* ---------------------------------------------------------------------------

\* At most this many RPC urls for one network.
MaxUrls == 2

\* The chain ids named by the tables of buildNetwork, and one that is in none.
ChainIds == {1, 3, 4, 5, 42, 11155111, 10, 420, 137, 80001, 42161, 421613,
             7777777, 31337}

\* The sequences of at most n elements of S.
SeqsUpTo(S, n) == UNION { [1..k -> S] : k \in 0..n }

\* The chain-id table of getDefaultMaxBlockRange.
MaxBlockRangeOfChain(id) ==
    CASE id \in {1, 3, 4, 5, 42, 11155111} -> 2000
      [] id \in {10, 420} -> 50000
      [] id \in {137, 80001} -> 50000
      [] id \in {42161, 421613} -> 50000
      [] OTHER -> 50000

isQuickNode(rpcUrls) == \E k \in DOMAIN rpcUrls : includes(rpcUrls[k], "quiknode")

isCloudflare(rpcUrls) == \E k \in DOMAIN rpcUrls : includes(rpcUrls[k], "cloudflare-eth")

\* getDefaultMaxBlockRange({ chainId, rpcUrls }): the Cloudflare cap is in the
\* else branch of the QuickNode cap.
getDefaultMaxBlockRange(id, rpcUrls) ==
    IF isQuickNode(rpcUrls) THEN Min(MaxBlockRangeOfChain(id), 10000)
    ELSE IF isCloudflare(rpcUrls) THEN Min(MaxBlockRangeOfChain(id), 800)
    ELSE MaxBlockRangeOfChain(id)

InitBlockRange ==
    /\ InitIdle
    /\ args \in [chainId : ChainIds,
                 rpcUrls : SeqsUpTo({QuickNodeUrl, CloudflareUrl, PlainUrl}, MaxUrls)]
    /\ result = NoResult
    /\ sent = <<>>
    /\ InitPool
    /\ InitStream
    /\ InitCache

GetDefaultMaxBlockRange ==
    /\ result = NoResult
    /\ result' = [kind |-> "value",
                  value |-> getDefaultMaxBlockRange(args.chainId, args.rpcUrls)]
    /\ UNCHANGED <<pipeline, stream, args, sent, pool, cache>>

NextBlockRange == GetDefaultMaxBlockRange

SpecBlockRange == InitBlockRange /\ [][NextBlockRange]_vars

\* C17: the default max block range is the chain-id table value lowered by the
\* provider caps: at most 10,000 with any QuickNode url, at most 800 with any
\* Cloudflare url (also when both are present), never above the table value.
C17_ProviderCapsApply ==
    result.kind = "value" =>
        /\ result.value <= MaxBlockRangeOfChain(args.chainId)
        /\ MaxBlockRangeOfChain(args.chainId) =
             (IF args.chainId \in {1, 3, 4, 5, 42, 11155111} THEN 2000 ELSE 50000)
        /\ isQuickNode(args.rpcUrls) => result.value <= 10000
        /\ isCloudflare(args.rpcUrls) => result.value <= 800
        /\ (~isQuickNode(args.rpcUrls) /\ ~isCloudflare(args.rpcUrls)) =>
             result.value = MaxBlockRangeOfChain(args.chainId)


\* ---------------------------------------------------------------------------
\* buildNetwork: the resolved network of a configured one.
\* ---------------------------------------------------------------------------

\* getRpcUrlsForClient({ transport, chain }): the urls of the transport, those
\* of every transport of a fallback list. A webSocket transport without a
\* socket and a transport of an unknown type have none.
RECURSIVE UrlsOfList(_, _)
UrlsOfTransport(transport, chainUrl) ==
    CASE transport.type = "http" ->
           << IF transport.url # Undefined THEN transport.url ELSE chainUrl >>
      [] transport.type = "webSocket" ->
           IF transport.url # Undefined THEN << transport.url >> ELSE <<>>
      [] transport.type = "fallback" -> UrlsOfList(transport.transports, chainUrl)
      [] OTHER -> <<>>

UrlsOfList(transports, chainUrl) ==
    IF transports = <<>> THEN <<>>
    ELSE UrlsOfTransport(Head(transports), chainUrl)
           \o UrlsOfList(Tail(transports), chainUrl)

getRpcUrlsForClient(transport, chainUrl) == UrlsOfTransport(transport, chainUrl)

\* value || fallback: the fallback replaces every falsy value, 0 included.
OrIfFalsy(value, fallback) ==
    IF value = Null \/ value = 0 THEN fallback ELSE value

\* value ?? fallback: the fallback replaces an unset value only.
OrIfUnset(value, fallback) ==
    IF value = Null THEN fallback ELSE value

\* buildNetwork({ networkName, network }): the resolved network, or the
\* validation error of getRequestForTransport.
\* The url of mainnet's chain definition.
MainnetUrl == <<"https", "cloudflare-eth", "com">>

\* The known chain definitions, as the default http url of each (Undefined
\* for a definition that has none): mainnet, which has one, and chain 10.
ChainTables == [{1, 10} -> {Undefined, MainnetUrl, ChainUrl}]

\* A lookup without the fallback to mainnet's definition.
knownChainUrl(id, chains) ==
    IF id \in DOMAIN chains THEN chains[id] ELSE Undefined

\* chain.rpcUrls.default.http[0] of the chain definition with the given id, of
\* mainnet's when no known chain has the id.
defaultChainUrl(id, chains) ==
    IF id \in DOMAIN chains THEN chains[id] ELSE chains[1]

buildNetwork(networkName, network, chains) ==
    LET chainUrl == defaultChainUrl(network.chainId, chains)
        rpcUrls == getRpcUrlsForClient(network.transport, chainUrl)
        request == getRequestForTransport(network.transport, chainUrl)
    IN  IF request.kind = "error"
        THEN [kind |-> "error", message |-> request.message]
        ELSE [kind |-> "network",
              name |-> networkName,
              chainId |-> network.chainId,
              request |-> request,
              url |-> IF rpcUrls = <<>> THEN Undefined ELSE rpcUrls[1],
              pollingInterval |-> OrIfUnset(network.pollingInterval, 1000),
              defaultMaxBlockRange |->
                  getDefaultMaxBlockRange(network.chainId, rpcUrls),
              maxHistoricalTaskConcurrency |->
                  OrIfUnset(network.maxHistoricalTaskConcurrency, 20),
              finalityBlockCount |-> getFinalityBlockCount(network.chainId)]

\* The configured networks: pollingInterval and maxHistoricalTaskConcurrency
\* are optional (Null when unset).
Networks(maxTransports) ==
    [chainId : {1, 10, 31337},
     transport : Transports(maxTransports),
     pollingInterval : {Null, 0, 500, 1000},
     maxHistoricalTaskConcurrency : {Null, 0, 1, 20, 50}]

InitNetwork ==
    /\ InitIdle
    /\ args \in [networkName : {"mainnet", "anvil"},
                 network : Networks(MaxTransports),
                 chains : {c \in ChainTables : c[1] = MainnetUrl}]
    /\ result = NoResult
    /\ sent = <<>>
    /\ InitPool
    /\ InitStream
    /\ InitCache

BuildNetwork ==
    /\ result = NoResult
    /\ result' = buildNetwork(args.networkName, args.network, args.chains)
    /\ UNCHANGED <<pipeline, stream, args, sent, pool, cache>>

NextNetwork == BuildNetwork

SpecNetwork == InitNetwork /\ [][NextNetwork]_vars

\* C18: the resolved network has the configured name and chainId, the
\* configured pollingInterval or 1,000 when unset, and the configured
\* maxHistoricalTaskConcurrency or 20 when unset; a configured value, 0
\* included, is never replaced by the default.
C18_ConfiguredValuesKept ==
    result.kind = "network" =>
        /\ result.name = args.networkName
        /\ result.chainId = args.network.chainId
        /\ args.network.pollingInterval # Null =>
             result.pollingInterval = args.network.pollingInterval
        /\ args.network.pollingInterval = Null => result.pollingInterval = 1000
        /\ args.network.maxHistoricalTaskConcurrency # Null =>
             result.maxHistoricalTaskConcurrency =
                 args.network.maxHistoricalTaskConcurrency
        /\ args.network.maxHistoricalTaskConcurrency = Null =>
             result.maxHistoricalTaskConcurrency = 20

\* A network is resolved with a configured pollingInterval of 0 kept and an
\* unset maxHistoricalTaskConcurrency defaulted.
C18_Witness ==
    /\ result.kind = "network"
    /\ args.network.pollingInterval = 0
    /\ result.pollingInterval = 0
    /\ args.network.maxHistoricalTaskConcurrency = Null
    /\ result.maxHistoricalTaskConcurrency = 20


\* ---------------------------------------------------------------------------
\* The historical request queues and the concurrency of their RPC calls.
\* ---------------------------------------------------------------------------

\* At most this many tasks wait in one queue.
MaxQueued == 2

\* The concurrency of one historical request queue of a network resolved with
\* maxHistoricalTaskConcurrency = cap.
QueueConcurrency(cap) == cap

\* The network was resolved by buildNetwork; reindexSourceGroup has created
\* its historical block queue and its historical logs queue.
InitQueues ==
    /\ InitIdle
    /\ args \in [maxHistoricalTaskConcurrency : {Null, 1, 2}]
    /\ result = [kind |-> "network",
                 maxHistoricalTaskConcurrency |->
                     OrIfUnset(args.maxHistoricalTaskConcurrency, 20)]
    /\ sent = <<>>
    /\ InitPool
    /\ InitStream
    /\ InitCache

\* historicalLogsRequestQueue.push of the slicing loop.
PushLogsTask(maxQueued) ==
    /\ queued["logs"] < maxQueued
    /\ queued' = [queued EXCEPT !["logs"] = @ + 1]
    /\ UNCHANGED <<pipeline, stream, args, result, sent, running, cache>>

\* A queue with a free worker slot starts its next task: the worker makes the
\* RPC call of the task (eth_getLogs, or the block request).
StartTask(q) ==
    /\ queued[q] > 0
    /\ running[q] < QueueConcurrency(result.maxHistoricalTaskConcurrency)
    /\ queued' = [queued EXCEPT ![q] = @ - 1]
    /\ running' = [running EXCEPT ![q] = @ + 1]
    /\ UNCHANGED <<pipeline, stream, args, result, sent, cache>>

\* A logs task ends: its worker pushes n block tasks to the block queue it was
\* given.
LogsTaskEnds(n, maxQueued) ==
    /\ running["logs"] > 0
    /\ queued["blocks"] + n <= maxQueued
    /\ running' = [running EXCEPT !["logs"] = @ - 1]
    /\ queued' = [queued EXCEPT !["blocks"] = @ + n]
    /\ UNCHANGED <<pipeline, stream, args, result, sent, cache>>

\* A block task ends.
BlockTaskEnds ==
    /\ running["blocks"] > 0
    /\ running' = [running EXCEPT !["blocks"] = @ - 1]
    /\ UNCHANGED <<pipeline, stream, args, result, sent, queued, cache>>

NextPool ==
    \/ PushLogsTask(MaxQueued)
    \/ \E q \in Queues : StartTask(q)
    \/ \E n \in 0..MaxBlockHashes : LogsTaskEnds(n, MaxQueued)
    \/ BlockTaskEnds

SpecPool == InitQueues /\ [][NextPool]_vars

\* C12: the RPC calls in flight for one network, those of logs tasks and of
\* block tasks together, are at most maxHistoricalTaskConcurrency.
C12_SharedConcurrencyCap ==
    result.kind = "network" =>
        running["logs"] + running["blocks"] <= result.maxHistoricalTaskConcurrency


\* ---------------------------------------------------------------------------
\* buildFactoryCriteria: where the child address is in a factory event's log.
\* ---------------------------------------------------------------------------

\* At most this many inputs in a factory event.
MaxInputs == 4

\* The ABI types of the inputs: a fixed-size one and a dynamic one.
AbiTypes == {"address", "string"}

isDynamic(type) == type \in {"string", "bytes"}

\* An address is the sequence of the hex digits after 0x.
Addresses == {<<"A", "b">>, <<"a", "b">>}

lowerOf(digit) ==
    CASE digit = "A" -> "a"
      [] digit = "B" -> "b"
      [] OTHER -> digit

toLowerCase(address) == [k \in DOMAIN address |-> lowerOf(address[k])]

\* The inputs of an ABI event.
AbiInputs == [name : {"child", "other"}, indexed : BOOLEAN, type : AbiTypes]

isIndexed(input) == input.indexed

isNotIndexed(input) == ~input.indexed

\* The ABI events of at most n inputs. An event has at most three indexed
\* inputs, an anonymous event at most four.
AbiEvents(n) ==
    { inputs \in SeqsUpTo(AbiInputs, n) :
        Cardinality({k \in DOMAIN inputs : inputs[k].indexed}) <= 4 }

\* getEventSelector(event): the hash of the event's signature, which the types
\* of its inputs determine.
getEventSelector(inputs) == [k \in DOMAIN inputs |-> inputs[k].type]

\* inputs.findIndex((input) => input.name === parameter): zero-based, -1 when
\* no input has the name.
findIndex(inputs, parameter) ==
    IF \E k \in DOMAIN inputs : inputs[k].name = parameter
    THEN (CHOOSE k \in DOMAIN inputs :
            /\ inputs[k].name = parameter
            /\ \A j \in 1..(k - 1) : inputs[j].name # parameter) - 1
    ELSE -1

\* No input at all.
noInputs(inputs) == <<>>

\* event.inputs.filter((x) => "indexed" in x && x.indexed)
indexedInputs(inputs) == SelectSeq(inputs, isIndexed)

\* Every input, indexed or not.
allInputs(inputs) == inputs

\* event.inputs.filter((x) => !("indexed" in x && x.indexed))
nonIndexedInputs(inputs) == SelectSeq(inputs, isNotIndexed)

\* getBytesConsumedByParam(param): one 32-byte word for a fixed-size type, the
\* 32-byte offset word for a dynamic one.
getBytesConsumedByParam(param) ==
    IF isDynamic(param.type) THEN 32 ELSE 32

\* The bytes consumed by the first n of the inputs.
RECURSIVE BytesBefore(_, _)
BytesBefore(inputs, n) ==
    IF n = 0 THEN 0
    ELSE BytesBefore(inputs, n - 1) + getBytesConsumedByParam(inputs[n])

\* buildFactoryCriteria({ address, event, parameter }): the criteria, or the
\* error thrown when no input of the event has the name; its message names the
\* parameter and the inputs found.
buildFactoryCriteria(_address, inputs, parameter) ==
    LET address == toLowerCase(_address)
        eventSelector == getEventSelector(inputs)
        indexedInputPosition == findIndex(indexedInputs(inputs), parameter)
        nonIndexedInputPosition == findIndex(nonIndexedInputs(inputs), parameter)
    IN  IF indexedInputPosition > -1
        THEN [kind |-> "criteria",
              address |-> address,
              eventSelector |-> eventSelector,
              childAddressLocation |-> <<"topic", indexedInputPosition + 1>>]
        ELSE IF nonIndexedInputPosition = -1
        THEN [kind |-> "error",
              parameter |-> parameter,
              found |-> [k \in DOMAIN inputs |-> inputs[k].name]]
        ELSE [kind |-> "criteria",
              address |-> address,
              eventSelector |-> eventSelector,
              childAddressLocation |->
                  <<"offset", BytesBefore(nonIndexedInputs(inputs),
                                          nonIndexedInputPosition)>>]

InitFactory ==
    /\ InitIdle
    /\ args \in [address : Addresses,
                 event : AbiEvents(MaxInputs),
                 parameter : {"child", "missing"}]
    /\ result = NoResult
    /\ sent = <<>>
    /\ InitPool
    /\ InitStream
    /\ InitCache

BuildFactoryCriteria ==
    /\ result = NoResult
    /\ result' = buildFactoryCriteria(args.address, args.event, args.parameter)
    /\ UNCHANGED <<pipeline, stream, args, sent, pool, cache>>

NextFactory == BuildFactoryCriteria

SpecFactory == InitFactory /\ [][NextFactory]_vars

\* The positions, in the event's inputs, of the inputs named by the parameter.
IndexedNamed == {k \in DOMAIN args.event :
                    args.event[k].indexed /\ args.event[k].name = args.parameter}

NonIndexedNamed == {k \in DOMAIN args.event :
                    ~args.event[k].indexed /\ args.event[k].name = args.parameter}

\* The least element of a non-empty set of positions.
First(S) == CHOOSE k \in S : \A j \in S : k <= j

\* C13: for a parameter that is among the indexed inputs the location is
\* topicK, K the one-based position of the parameter among the indexed inputs
\* only, and K is in 1..3.
C13_TopicOfIndexedParameter ==
    (result # NoResult /\ IndexedNamed # {}) =>
        /\ result.kind = "criteria"
        /\ result.childAddressLocation =
             <<"topic", Cardinality({k \in 1..First(IndexedNamed) :
                                        args.event[k].indexed})>>
        /\ result.childAddressLocation[2] \in 1..3


\* C14: for a parameter that is not among the indexed inputs but among the
\* non-indexed ones the location is offsetB, B the sum of the bytes consumed by
\* the non-indexed inputs before the parameter: indexed inputs add nothing, B
\* is 0 for the first non-indexed input, and a multiple of 32.
C14_OffsetOfNonIndexedParameter ==
    (result # NoResult /\ IndexedNamed = {} /\ NonIndexedNamed # {}) =>
        LET before == {k \in 1..(First(NonIndexedNamed) - 1) :
                          ~args.event[k].indexed}
        IN  /\ result.kind = "criteria"
            /\ result.childAddressLocation = <<"offset", 32 * Cardinality(before)>>
            /\ before = {} => result.childAddressLocation[2] = 0
            /\ result.childAddressLocation[2] % 32 = 0

\* The parameter is the second non-indexed input, after an indexed one, and
\* its offset is 32.
C14_Witness ==
    /\ result.kind = "criteria"
    /\ IndexedNamed = {}
    /\ First(NonIndexedNamed) = 3
    /\ \E k \in 1..2 : args.event[k].indexed
    /\ result.childAddressLocation = <<"offset", 32>>

\* C15: a criteria object is returned only when the parameter is a fixed-size
\* input; a parameter of a dynamic type is rejected.
C15_DynamicParameterRejected ==
    result.kind = "criteria" =>
        LET position == IF IndexedNamed # {} THEN First(IndexedNamed)
                        ELSE First(NonIndexedNamed)
        IN  ~isDynamic(args.event[position].type)

\* A lowercase hex address.
isLowerCase(address) == \A k \in DOMAIN address : address[k] \notin {"A", "B"}

\* C16: a criteria object has a lowercase parent address and one child-address
\* location, a topic index or a byte offset; a parameter name that is among the
\* indexed and among the non-indexed inputs gets the topic location.
C16_OneLocationLowercaseAddress ==
    result.kind = "criteria" =>
        /\ isLowerCase(result.address)
        /\ result.address = toLowerCase(args.address)
        /\ Len(result.childAddressLocation) = 2
        /\ result.childAddressLocation[1] \in {"topic", "offset"}
        /\ result.childAddressLocation[2] \in Nat
        /\ (IndexedNamed # {} /\ NonIndexedNamed # {}) =>
             result.childAddressLocation[1] = "topic"
        /\ result = buildFactoryCriteria(args.address, args.event, args.parameter)

\* An address with upper-case digits and a parameter name that a non-indexed
\* input has before an indexed one has it: the topic is chosen.
C16_Witness ==
    /\ result.kind = "criteria"
    /\ ~isLowerCase(args.address)
    /\ IndexedNamed # {}
    /\ NonIndexedNamed # {}
    /\ First(NonIndexedNamed) < First(IndexedNamed)
    /\ result.childAddressLocation[1] = "topic"


\* ---------------------------------------------------------------------------
\* The cache store: synced intervals, and the tasks that fill the cache.
\* ---------------------------------------------------------------------------

\* The blocks of recordInterval calls are 0..MaxIntervalBlock.
MaxIntervalBlock == 6

\* The historical fetch of the cache model is over blocks 0..MaxCacheBlock.
MaxCacheBlock == 3

SetMin(S) == CHOOSE x \in S : \A y \in S : x <= y

SetMax(S) == CHOOSE x \in S : \A y \in S : x >= y

\* The blocks of a set of intervals.
Covered(stored) == UNION {Blocks(iv) : iv \in stored}

\* A merge of the intervals that overlap the new one, not of those that only
\* touch it.
recordIntervalOverlapping(stored, interval) ==
    LET joined == {iv \in stored : iv[1] <= interval[2] /\ interval[1] <= iv[2]}
    IN  (stored \ joined)
          \cup {<<SetMin({interval[1]} \cup {iv[1] : iv \in joined}),
                  SetMax({interval[2]} \cup {iv[2] : iv \in joined})>>}

\* recordInterval(chainId, sourceFingerprint, [from, to]): the new interval is
\* merged with the stored intervals it overlaps or touches.
recordInterval(stored, interval) ==
    LET joined == {iv \in stored :
                      iv[1] <= interval[2] + 1 /\ interval[1] <= iv[2] + 1}
    IN  (stored \ joined)
          \cup {<<SetMin({interval[1]} \cup {iv[1] : iv \in joined}),
                  SetMax({interval[2]} \cup {iv[2] : iv \in joined})>>}

InitIntervals ==
    /\ InitIdle
    /\ InitOthers

\* One recordInterval call; args keeps the call and the intervals stored
\* before it.
RecordInterval(from, to) ==
    /\ from <= to
    /\ args' = [interval |-> <<from, to>>, stored |-> intervals]
    /\ intervals' = recordInterval(intervals, <<from, to>>)
    /\ recorded' = recorded \cup from..to
    /\ UNCHANGED <<pipeline, stream, result, sent, pool, chainLogs, cachedLogs,
                   cachedBlocks, logsTasks, aborted>>

NextIntervals ==
    \E from \in 0..MaxIntervalBlock, to \in 0..MaxIntervalBlock :
        RecordInterval(from, to)

SpecIntervals == InitIntervals /\ [][NextIntervals]_vars

\* C20: after any sequence of recordInterval calls the stored intervals are
\* pairwise disjoint and maximal (no two overlap or touch) and their union is
\* the union of all recorded intervals.
C20_DisjointMaximalSameUnion ==
    /\ \A iv \in intervals : iv[1] <= iv[2]
    /\ \A iv \in intervals : \A other \in intervals \ {iv} :
           iv[2] + 1 < other[1] \/ other[2] + 1 < iv[1]
    /\ Covered(intervals) = recorded

\* A call whose interval touches one stored interval and overlaps another has
\* merged the three into one.
C20_Witness ==
    /\ args # <<>>
    /\ Cardinality(args.stored) = 2
    /\ \E iv \in args.stored : iv[2] + 1 = args.interval[1]
    /\ \E iv \in args.stored : iv[1] < args.interval[2] /\ args.interval[2] < iv[2]
    /\ Cardinality(intervals) = 1


\* The logs task of a slice: queued, then waiting for its block tasks
\* ("blocks"), then committed; or failed.
LogsTask(slice, phase, waiting) ==
    [from |-> slice[1], to |-> slice[2], phase |-> phase, waiting |-> waiting]

\* The blocks of a slice that hold a matching log; a block's number stands for
\* its hash.
HashesOf(task) == chainLogs \cap (task.from..task.to)

\* An interval recorded as soon as the logs are written.
IntervalReadyAfterLogs(task) == task.phase = "blocks"

\* The interval of a slice is recorded only after all block tasks of the
\* slice have completed.
IntervalReady(task) == task.phase = "blocks" /\ task.waiting = {}

\* The required range 0..MaxCacheBlock has been sliced and every slice pushed
\* as a logs task; the chain holds matching logs in any of the blocks, and
\* block 0 may be in the cache already.
InitCacheFill ==
    /\ InitIdle
    /\ args \in [blockLimit : 1..MaxLimit]
    /\ result = NoResult
    /\ sent = <<>>
    /\ InitPool
    /\ InitStream
    /\ chainLogs \in SUBSET (0..MaxCacheBlock)
    /\ cachedLogs = {}
    /\ cachedBlocks \in SUBSET {0}
    /\ intervals = {}
    /\ recorded = {}
    /\ logsTasks = {LogsTask(slice, "queued", {}) :
                      slice \in SeqRange(SliceRange(<<0, MaxCacheBlock>>, args.blockLimit))}
    /\ aborted = FALSE

\* eth_getLogs of a slice succeeds: the logs are written and one block task is
\* enqueued per block hash that is not cached yet.
LogsTaskSucceeds(task) ==
    /\ ~aborted
    /\ task.phase = "queued"
    /\ cachedLogs' = cachedLogs \cup HashesOf(task)
    /\ logsTasks' = (logsTasks \ {task})
         \cup {[task EXCEPT !.phase = "blocks", !.waiting = HashesOf(task) \ cachedBlocks]}
    /\ UNCHANGED <<pipeline, stream, args, result, sent, pool, chainLogs, cachedBlocks,
                   intervals, recorded, aborted>>

\* Two parts that share the middle block.
HalvesSharingMiddle(from, to) ==
    {<<from, (from + to) \div 2>>, <<(from + to) \div 2, to>>}

\* The two halves of a range of more than one block.
Halves(from, to) ==
    {<<from, (from + to) \div 2>>, <<(from + to) \div 2 + 1, to>>}

\* eth_getLogs answers "range too large": the range is halved and the two
\* halves are enqueued again.
LogsTaskRangeTooLarge(task) ==
    /\ ~aborted
    /\ task.phase = "queued"
    /\ task.from < task.to
    /\ logsTasks' = (logsTasks \ {task})
         \cup {LogsTask(half, "queued", {}) : half \in Halves(task.from, task.to)}
    /\ UNCHANGED <<pipeline, stream, args, result, sent, pool, chainLogs, cachedLogs,
                   cachedBlocks, intervals, recorded, aborted>>

\* The RPC call of a logs task or of one of its block tasks fails for good:
\* the slice is not committed.
TaskFails(task) ==
    /\ ~aborted
    /\ \/ task.phase = "queued"
       \/ task.phase = "blocks" /\ task.waiting # {}
    /\ logsTasks' = (logsTasks \ {task}) \cup {[task EXCEPT !.phase = "failed"]}
    /\ UNCHANGED <<pipeline, stream, args, result, sent, pool, chainLogs, cachedLogs,
                   cachedBlocks, intervals, recorded, aborted>>

\* The block task of one hash completes: block and transactions are written.
BlockTaskSucceeds(task, hash) ==
    /\ ~aborted
    /\ task.phase = "blocks"
    /\ hash \in task.waiting
    /\ cachedBlocks' = cachedBlocks \cup {hash}
    /\ logsTasks' = (logsTasks \ {task}) \cup {[task EXCEPT !.waiting = @ \ {hash}]}
    /\ UNCHANGED <<pipeline, stream, args, result, sent, pool, chainLogs, cachedLogs,
                   intervals, recorded, aborted>>

\* The interval of a slice is recorded.
CommitSlice(task) ==
    /\ ~aborted
    /\ IntervalReady(task)
    /\ intervals' = recordInterval(intervals, <<task.from, task.to>>)
    /\ recorded' = recorded \cup (task.from..task.to)
    /\ logsTasks' = (logsTasks \ {task}) \cup {[task EXCEPT !.phase = "committed"]}
    /\ UNCHANGED <<pipeline, stream, args, result, sent, pool, chainLogs, cachedLogs,
                   cachedBlocks, aborted>>

\* Shutdown: the outstanding RPC calls are aborted and nothing more is written.
Abort ==
    /\ ~aborted
    /\ aborted' = TRUE
    /\ UNCHANGED <<pipeline, stream, args, result, sent, pool, chainLogs, cachedLogs,
                   cachedBlocks, intervals, recorded, logsTasks>>

NextCacheFill ==
    \/ \E task \in logsTasks : LogsTaskSucceeds(task)
    \/ \E task \in logsTasks : LogsTaskRangeTooLarge(task)
    \/ \E task \in logsTasks : TaskFails(task)
    \/ \E task \in logsTasks : \E hash \in task.waiting : BlockTaskSucceeds(task, hash)
    \/ \E task \in logsTasks : CommitSlice(task)
    \/ Abort

SpecCacheFill == InitCacheFill /\ [][NextCacheFill]_vars

\* C19: every block with a matching log inside a recorded interval has its
\* logs and the block itself in the cache, also after a task failure or an
\* abort; only committed slices have recorded intervals, and a committed slice
\* waits for no block task.
C19_CacheCoverageSound ==
    /\ \A iv \in intervals : \A n \in Blocks(iv) \cap chainLogs :
           n \in cachedLogs /\ n \in cachedBlocks
    /\ \A task \in logsTasks : task.phase = "committed" =>
           /\ task.waiting = {}
           /\ HashesOf(task) \subseteq (cachedLogs \cap cachedBlocks)
    /\ recorded = UNION {task.from..task.to :
                           task \in {x \in logsTasks : x.phase = "committed"}}
    /\ Covered(intervals) = recorded

\* After an abort, with one slice committed over a block that holds a log and
\* another slice left in the middle of its block tasks.
C19_Witness ==
    /\ aborted
    /\ \E iv \in intervals : Blocks(iv) \cap chainLogs # {}
    /\ \E task \in logsTasks : task.phase = "blocks" /\ task.waiting # {}
    /\ \E task \in logsTasks : task.phase = "failed"


\* C26: buildFactoryCriteria throws, with an error naming the parameter and no
\* criteria returned, when the parameter name is neither among the indexed nor
\* among the non-indexed inputs, and in no other case.
C26_ThrowsIffParameterNotFound ==
    result # NoResult =>
        /\ result.kind \in {"criteria", "error"}
        /\ result.kind = "error" <=> (IndexedNamed = {} /\ NonIndexedNamed = {})
        /\ result.kind = "error" =>
             /\ result.parameter = args.parameter
             /\ result.found = [k \in DOMAIN args.event |-> args.event[k].name]

\* The error was thrown for an event that has inputs, none with the name.
C26_Witness ==
    /\ result.kind = "error"
    /\ result.parameter = "missing"
    /\ Len(args.event) >= 2


\* The transport the request function of the network is built from: the
\* network's transport, the first one of a fallback list.
RequestTransport ==
    IF args.network.transport.type = "fallback"
    THEN args.network.transport.transports[1]
    ELSE args.network.transport

\* The default http url of the chain definition buildNetwork uses.
ChainDefinitionUrl ==
    IF args.network.chainId \in {1, 10}
    THEN args.chains[args.network.chainId]
    ELSE MainnetUrl

C27_StartBlockAboveLatestFails ==
    \A c \in Calls :
        /\ currentBlockNumber[c] # Null =>
             (pc[c] = "failed" <=> startBlock > currentBlockNumber[c])
        /\ pc[c] = "failed" =>
             /\ currentBlockNumber[c] # Null
             /\ pushed[c] = <<>>
             /\ logsPending[c] = {}
             /\ livePaused[c]
             /\ \A b \in 0..chainHead : <<c, b>> \notin logQueue
             /\ c = nextCall =>
                  /\ c \in SeqRange(listeners)
                  /\ \A b \in (currentBlockNumber[c] + 1)..lastEmitted :
                        b \in SeqRange(liveQueue[c])

\* A failed call whose live queue holds a block announced after the failure.
C27_Witness ==
    \E c \in Calls :
        /\ pc[c] = "failed"
        /\ livePaused[c]
        /\ \E b \in SeqRange(liveQueue[c]) : b > currentBlockNumber[c]


\* The start of the source group with the scheduling the claim of the handover
\* assumes: a latest-block request that is issued again and again eventually
\* succeeds, the cache store answers, every pushed logs task and every block
\* task eventually completes, an awaited drain is eventually delivered, and a
\* live queue that is not paused works through its tasks.
\* The chain of the fair runs reaches block FairMaxBlock.
FairMaxBlock == 2

Fairness ==
    \A c \in Calls :
        /\ WF_vars(LatestBlockOk(c))
        /\ WF_vars(\E cached \in CachedRanges(FairMaxBlock) : Plan(c, cached))
        /\ WF_vars(\E i \in 1..Len(pushed[c]) : \E n \in 0..MaxBlockHashes :
                      LogsTaskDone(c, i, n))
        /\ WF_vars(BlockTaskDone(c))
        /\ WF_vars(LogsDrained(c))
        /\ WF_vars(BlocksDrained(c))
        /\ WF_vars(LiveTaskDone(c))

\* One start of the source group, on the shorter chain.
NextFair == Step(FairMaxBlock, 1, 1, FairMaxBlock, MaxBlockHashes)

SpecFair == Init /\ [][NextFair]_vars /\ Fairness

\* C28: a call whose latest-block request has succeeded with startBlock <=
\* latest block eventually resumes its live queue and returns, and every block
\* number queued for it is eventually processed.
C28_HandoverCompletes ==
    \A c \in Calls :
        /\ (pc[c] = "cache") ~> (pc[c] = "done" /\ ~livePaused[c])
        /\ \A b \in 0..FairMaxBlock :
             (pc[c] \in {"cache", "waitLogs", "waitBlocks", "done"}
                /\ b \in SeqRange(liveQueue[c]))
               ~> (<<c, b>> \in logQueue)

\* The call has returned after waiting for block tasks, and a block that was
\* announced during the historical sync has been processed from the emptied
\* live queue.
C28_Witness ==
    \E c \in Calls :
        /\ pc[c] = "done"
        /\ ~livePaused[c]
        /\ liveQueue[c] = <<>>
        /\ lastEmitted > currentBlockNumber[c]
        /\ <<c, lastEmitted>> \in logQueue


\* C29: after reindexSourceGroup is entered again, the live queue of an
\* earlier call is pushed no further block number; the earlier call still
\* resumes its own live queue when it stops waiting, and what that queue
\* processes goes to the shared logQueue like the tasks of the new call.
C29_SupersededCallStillResumes ==
    [][\A c \in Calls :
          /\ c < nextCall => Len(liveQueue'[c]) <= Len(liveQueue[c])
          /\ (pc[c] \in {"cache", "waitLogs", "waitBlocks"} /\ pc'[c] = "done") =>
                /\ livePaused[c]
                /\ ~livePaused'[c]
          /\ (c < nextCall /\ Len(liveQueue'[c]) < Len(liveQueue[c])) =>
                /\ ~livePaused[c]
                /\ logQueue' = logQueue \cup {<<c, Head(liveQueue[c])>>}
      ]_vars

\* The first call was superseded and has returned; a block of its backlog has
\* reached logQueue while the live queue of the second call, still paused,
\* holds the block announced after the re-entry.
C29_Witness ==
    /\ nextCall = 2
    /\ pc[1] = "done"
    /\ pc[2] \in {"waitLogs", "waitBlocks"}
    /\ livePaused[2]
    /\ \E b \in 0..chainHead : <<1, b>> \in logQueue /\ b \notin SeqRange(liveQueue[2])
    /\ liveQueue[2] # <<>>


\* ---------------------------------------------------------------------------
\* Range halving against a provider that limits the span of eth_getLogs.
\* ---------------------------------------------------------------------------

\* The requested ranges are 0..n for n up to MaxRangeEnd.
MaxRangeEnd == 6

\* The provider accepts spans of at most 1..MaxProviderLimit blocks.
MaxProviderLimit == 3

\* The number of blocks of a task's range.
Span(task) == task.to - task.from + 1

\* One logs task for the requested range; the provider rejects spans above
\* args.limit. Besides the small ranges, the range 0..4095 with a limit of
\* 1024 blocks.
InitHalving ==
    /\ InitIdle
    /\ args \in [requested : {<<0, n>> : n \in 0..MaxRangeEnd},
                 limit : 1..MaxProviderLimit]
               \cup {[requested |-> <<0, 4095>>, limit |-> 1024]}
    /\ result = NoResult
    /\ sent = <<>>
    /\ InitPool
    /\ InitStream
    /\ chainLogs = {}
    /\ cachedLogs = {}
    /\ cachedBlocks = {}
    /\ intervals = {}
    /\ recorded = {}
    /\ logsTasks = {LogsTask(args.requested, "queued", {})}
    /\ aborted = FALSE

\* The provider rejects the call: "range too large".
ProviderRejects(task) ==
    /\ Span(task) > args.limit
    /\ LogsTaskRangeTooLarge(task)

\* The provider answers the call.
ProviderAnswers(task) ==
    /\ Span(task) <= args.limit
    /\ LogsTaskSucceeds(task)

NextHalving ==
    \/ \E task \in logsTasks : ProviderRejects(task)
    \/ \E task \in logsTasks : ProviderAnswers(task)
    \/ \E task \in logsTasks : CommitSlice(task)

SpecHalving == InitHalving /\ [][NextHalving]_vars /\ WF_vars(NextHalving)

\* The tasks whose eth_getLogs call succeeded.
Successful == {task \in logsTasks : task.phase \in {"blocks", "committed"}}

AllCommitted == \A task \in logsTasks : task.phase = "committed"

\* C21: a rejected logs task is replaced by the tasks of its two halves; the
\* ranges of the tasks stay disjoint and cover the requested range, every
\* successful query is within the provider limit, and the process ends with
\* every slice committed and the requested range as the one stored interval;
\* for the range 0..4095 and a limit of 1024 there are 4 successful queries.
C21_RangeHalving ==
    /\ [](/\ \A task \in logsTasks : \A other \in logsTasks \ {task} :
               task.to < other.from \/ other.to < task.from
          /\ UNION {task.from..task.to : task \in logsTasks} = Blocks(args.requested)
          /\ \A task \in Successful : Span(task) <= args.limit
          /\ \A task \in logsTasks : Span(task) > args.limit => task.phase = "queued"
          /\ AllCommitted =>
               /\ intervals = {args.requested}
               /\ args.limit = 1024 => Cardinality(Successful) = 4)
    /\ <>[]AllCommitted

\* The range 0..4095 was fetched with 4 queries and is the one interval.
C21_Witness ==
    /\ args.limit = 1024
    /\ Cardinality(Successful) = 4
    /\ AllCommitted
    /\ intervals = {<<0, 4095>>}


\* ---------------------------------------------------------------------------
\* deleteFromBlock: the rollback of the cache on a reorg.
\* ---------------------------------------------------------------------------

\* The cache of the rollback model is filled over blocks 0..MaxRollbackBlock.
MaxRollbackBlock == 3

\* Intervals cut at the block itself, which stays covered.
truncateIntervalsAt(stored, blockNumber) ==
    {<<iv[1], Min(iv[2], blockNumber)>> : iv \in {x \in stored : x[1] <= blockNumber}}

\* The stored intervals after deleteFromBlock: those with toBlock >= blockNumber
\* end at blockNumber - 1, and are dropped when nothing is left of them.
truncateIntervals(stored, blockNumber) ==
    {<<iv[1], Min(iv[2], blockNumber - 1)>> : iv \in {x \in stored : x[1] < blockNumber}}

\* The required range 0..MaxRollbackBlock was pushed in slices of blockLimit 1.
InitRollback ==
    /\ InitIdle
    /\ args = [blockLimit |-> 1]
    /\ result = NoResult
    /\ sent = <<>>
    /\ InitPool
    /\ InitStream
    /\ chainLogs \in SUBSET (0..MaxRollbackBlock)
    /\ cachedLogs = {}
    /\ cachedBlocks = {}
    /\ intervals = {}
    /\ recorded = {}
    /\ logsTasks = {LogsTask(slice, "queued", {}) :
                      slice \in SeqRange(SliceRange(<<0, MaxRollbackBlock>>, args.blockLimit))}
    /\ aborted = FALSE

\* deleteFromBlock(chainId, blockNumber): logs and blocks (with their
\* transactions) from blockNumber on are purged and the intervals truncated.
\* result keeps the block number and the cache as it was before.
DeleteFromBlock(blockNumber) ==
    /\ result = NoResult
    /\ result' = [kind |-> "deleted", blockNumber |-> blockNumber,
                  logs |-> cachedLogs, blocks |-> cachedBlocks, stored |-> intervals]
    /\ cachedLogs' = {n \in cachedLogs : n < blockNumber}
    /\ cachedBlocks' = {n \in cachedBlocks : n < blockNumber}
    /\ intervals' = truncateIntervals(intervals, blockNumber)
    /\ UNCHANGED <<pipeline, stream, args, sent, pool, chainLogs, recorded, logsTasks, aborted>>

\* The cache is filled; at some point a reorg rolls it back.
NextRollback ==
    \/ /\ result = NoResult
       /\ \/ \E task \in logsTasks : LogsTaskSucceeds(task)
          \/ \E task \in logsTasks : LogsTaskRangeTooLarge(task)
          \/ \E task \in logsTasks : \E hash \in task.waiting : BlockTaskSucceeds(task, hash)
          \/ \E task \in logsTasks : CommitSlice(task)
    \/ \E blockNumber \in 0..(MaxRollbackBlock + 1) : DeleteFromBlock(blockNumber)

SpecRollback == InitRollback /\ [][NextRollback]_vars

\* C24: after deleteFromBlock(R) nothing cached is at block R or above, every
\* stored interval ends below R, what the intervals cover is what they covered
\* below R, and data and intervals entirely below R are as before.
C24_RollbackPurgesFromBlock ==
    result.kind = "deleted" =>
        LET R == result.blockNumber IN
        /\ \A n \in cachedLogs \cup cachedBlocks : n < R
        /\ cachedLogs = result.logs \cap (0..(R - 1))
        /\ cachedBlocks = result.blocks \cap (0..(R - 1))
        /\ \A iv \in intervals : iv[1] <= iv[2] /\ iv[2] < R
        /\ Covered(intervals) = Covered(result.stored) \cap (0..(R - 1))
        /\ \A iv \in result.stored :
             /\ iv[2] < R => iv \in intervals
             /\ (iv[1] < R /\ iv[2] >= R) => <<iv[1], R - 1>> \in intervals
        /\ Cardinality(intervals) = Cardinality({iv \in result.stored : iv[1] < R})

\* A rollback that purged a cached block, cut one interval and removed another.
C24_Witness ==
    /\ result.kind = "deleted"
    /\ result.blocks # cachedBlocks
    /\ \E iv \in result.stored :
          iv[1] < result.blockNumber /\ iv[2] >= result.blockNumber
    /\ \E iv \in result.stored : iv[1] > result.blockNumber
    /\ Cardinality(intervals) < Cardinality(result.stored)

\* ---------------------------------------------------------------------------
\* The event stream and the dispatcher: the merge of the sources' cursors,
\* the "setup" indexing function, the checkpoints and the reorg rollback.
\* ---------------------------------------------------------------------------

\* The chains of the stream model have blocks 1..MaxStreamBlock and hold at
\* most MaxEvents events of the sources.
MaxStreamBlock == 2
MaxEvents == 3

StreamChains == {1, 2}

ChainOf(sourceName) == IF sourceName = "c" THEN 2 ELSE 1

\* Lexicographic order of two tuples of the same length.
RECURSIVE SeqLess(_, _)
SeqLess(x, y) ==
    IF x = <<>> THEN FALSE
    ELSE IF Head(x) # Head(y) THEN Head(x) < Head(y)
    ELSE SeqLess(Tail(x), Tail(y))

\* The total order of events.
eventKey(event) ==
    <<event.timestamp, event.chainId, event.blockNumber,
      event.transactionIndex, event.logIndex>>

\* What a checkpoint keeps of an event.
eventPosition(event) == <<event.blockNumber, event.logIndex>>

\* The places of a chain a log can be at: a block and a log index.
LogSlots == StreamChains \X (1..MaxStreamBlock) \X {0, 1}

\* The event of the log at a slot, matched by a source of the slot's chain.
\* The blocks of chain 2 are skew seconds younger than those of chain 1.
EventAt(slot, sourceName, skew) ==
    [sourceName |-> sourceName, chainId |-> slot[1],
     timestamp |-> slot[2] + (slot[1] - 1) * skew,
     blockNumber |-> slot[2], transactionIndex |-> slot[3], logIndex |-> slot[3]]

\* The events the chains can hold: a log is matched by a source of its chain.
CandidateEvents(skew) ==
    {e \in {EventAt(slot, s, skew) : slot \in LogSlots, s \in SourceNames} :
        ChainOf(e.sourceName) = e.chainId}

\* The chains the model runs on: a slot holds at most one log.
CanonicalChains ==
    UNION { {events \in SUBSET CandidateEvents(skew) :
               /\ Cardinality(events) <= MaxEvents
               /\ \A e, o \in events : eventKey(e) = eventKey(o) => e = o} :
            skew \in {0, 1} }

\* The events in the total order.
RECURSIVE sortEvents(_)
sortEvents(events) ==
    IF events = {} THEN <<>>
    ELSE LET first == CHOOSE e \in events :
                        \A o \in events \ {e} : SeqLess(eventKey(e), eventKey(o))
         IN <<first>> \o sortEvents(events \ {first})

\* The cursor of a source: its events in block and log order.
cursorOf(events, sourceName) ==
    sortEvents({e \in events : e.sourceName = sourceName})

\* The events at the heads of the cursors: fetched and not yet dispatched.
headsOf(events, fetchedCount, dispatchedCount) ==
    {cursorOf(events, s)[dispatchedCount[s] + 1] :
        s \in {x \in SourceNames : dispatchedCount[x] < fetchedCount[x]}}

\* A merge that takes the least head without waiting for the empty cursors.
cursorsNeverAwaited(events, fetchedCount, dispatchedCount) == TRUE

\* The merge pulls from every cursor and blocks while one is empty: every
\* cursor holds an event or has none left to fetch.
cursorsReady(events, fetchedCount, dispatchedCount) ==
    \A s \in SourceNames :
        \/ dispatchedCount[s] < fetchedCount[s]
        \/ fetchedCount[s] = Cardinality({e \in events : e.sourceName = s})

\* The events of a source that were dispatched, in order.
deliveredOf(events, dispatchedCount, sourceName) ==
    SubSeq(cursorOf(events, sourceName), 1, dispatchedCount[sourceName])

\* The last event of those below the block, or no checkpoint.
lastBelow(delivered, blockNumber) ==
    LET kept == SelectSeq(delivered, LAMBDA e : e.blockNumber < blockNumber)
    IN IF kept = <<>> THEN NoCheckpoint ELSE eventPosition(kept[Len(kept)])

\* A reset that keeps the events of block R itself.
resetCheckpointThrough(delivered, blockNumber) == lastBelow(delivered, blockNumber + 1)

\* The checkpoint after a rollback to R: the greatest (blockNumber, logIndex)
\* dispatched with blockNumber < R.
resetCheckpoint(delivered, blockNumber) == lastBelow(delivered, blockNumber)

\* A dispatcher that starts on the events without the "setup" function.
setupNeverAwaited(count) == TRUE

\* "setup" runs before all other events: it has run when an event is dispatched.
setupRan(count) == count > 0

InitEventStream ==
    /\ InitIdle
    /\ args = <<>>
    /\ result = NoResult
    /\ sent = <<>>
    /\ InitPool
    /\ InitCache
    /\ canonical \in CanonicalChains
    /\ fetched = [s \in SourceNames |-> 0]
    /\ dispatched = [s \in SourceNames |-> 0]
    /\ checkpoint = [s \in SourceNames |-> NoCheckpoint]
    /\ lastCall = NoCall
    /\ setups = 0
    /\ reorgs = 0

\* A historical or live fetch of a source completes: its next event reaches
\* the source's cursor.
FetchCompletes(sourceName) ==
    /\ fetched[sourceName] < Cardinality({e \in canonical : e.sourceName = sourceName})
    /\ fetched' = [fetched EXCEPT ![sourceName] = @ + 1]
    /\ UNCHANGED <<pipeline, args, result, sent, pool, cache, canonical, dispatched,
                   checkpoint, lastCall, setups, reorgs>>

\* The "setup" indexing function runs before all other events; it has no
\* event argument, only context.
DispatchSetup ==
    /\ setups = 0
    /\ setups' = setups + 1
    /\ lastCall' = [name |-> "setup", arguments |-> {"context"}]
    /\ UNCHANGED <<pipeline, args, result, sent, pool, cache, canonical, fetched,
                   dispatched, checkpoint, reorgs>>

\* The dispatcher takes the next event of the stream, the least head of the
\* cursors, calls its indexing function and commits the source's checkpoint.
DispatchEvent(sourceName) ==
    /\ setupRan(setups)
    /\ dispatched[sourceName] < fetched[sourceName]
    /\ cursorsReady(canonical, fetched, dispatched)
    /\ LET event == cursorOf(canonical, sourceName)[dispatched[sourceName] + 1]
       IN /\ \A o \in headsOf(canonical, fetched, dispatched) \ {event} :
                 SeqLess(eventKey(event), eventKey(o))
          /\ lastCall' = [name |-> "event", arguments |-> {"event", "context"},
                          event |-> event]
          /\ checkpoint' = [checkpoint EXCEPT ![sourceName] = eventPosition(event)]
    /\ dispatched' = [dispatched EXCEPT ![sourceName] = @ + 1]
    /\ UNCHANGED <<pipeline, args, result, sent, pool, cache, canonical, fetched,
                   setups, reorgs>>

NextEventStream ==
    \/ \E sourceName \in SourceNames : FetchCompletes(sourceName)
    \/ DispatchSetup
    \/ \E sourceName \in SourceNames : DispatchEvent(sourceName)

SpecEventStream == InitEventStream /\ [][NextEventStream]_vars

\* The sources that had an event dispatched.
Started == {s \in SourceNames : dispatched[s] > 0}

Delivered ==
    UNION { SeqRange(deliveredOf(canonical, dispatched, s)) : s \in SourceNames }

\* C22: whatever the order in which the fetches of the sources complete, each
\* event dispatched is greater in (timestamp, chainId, blockNumber,
\* transactionIndex, logIndex) than the event dispatched before it and greater
\* in (blockNumber, logIndex) than every event of its chain dispatched before;
\* the events dispatched are at all times the first ones of the sorted chain
\* events.
C22_DispatchedInTotalOrder ==
    /\ [](LET sorted == sortEvents(canonical)
          IN Delivered = {sorted[i] : i \in 1..Cardinality(Delivered)})
    /\ [][(lastCall' # lastCall /\ lastCall'.name = "event") =>
            /\ lastCall.name = "event" =>
                  SeqLess(eventKey(lastCall.event), eventKey(lastCall'.event))
            /\ \A s \in SourceNames :
                  ChainOf(s) = lastCall'.event.chainId =>
                      SeqLess(checkpoint[s], eventPosition(lastCall'.event))]_vars

\* Events of the three sources were dispatched, the one of chain 2 before the
\* last one of chain 1.
C22_Witness ==
    /\ Cardinality(Started) = 3
    /\ lastCall.name = "event"
    /\ lastCall.event.chainId = 1


\* ---------------------------------------------------------------------------
\* The dispatcher on a reorg.
\* ---------------------------------------------------------------------------

\* The number of events of a source below a block.
countBelow(events, sourceName, blockNumber) ==
    Cardinality({e \in events : e.sourceName = sourceName /\ e.blockNumber < blockNumber})

\* A ReorgEvent at block R of a chain: the handlers in flight are drained (a
\* dispatch is one step), the blocks from R on are replaced, here by blocks
\* that lost some of the logs, the checkpoint of every source of the chain is
\* reset and the stream resumes from it. result keeps the chain and R. One
\* reorg happens in a run.
Reorg(reorgChain, blockNumber, lost) ==
    /\ reorgs = 0
    /\ reorgs' = reorgs + 1
    /\ result' = [kind |-> "reorg", chainId |-> reorgChain, blockNumber |-> blockNumber]
    /\ canonical' = canonical \ lost
    /\ fetched' = [s \in SourceNames |->
                      IF ChainOf(s) = reorgChain
                      THEN Min(fetched[s], countBelow(canonical, s, blockNumber))
                      ELSE fetched[s]]
    /\ dispatched' = [s \in SourceNames |->
                         IF ChainOf(s) = reorgChain
                         THEN Min(dispatched[s], countBelow(canonical, s, blockNumber))
                         ELSE dispatched[s]]
    /\ checkpoint' = [s \in SourceNames |->
                         IF ChainOf(s) = reorgChain
                         THEN resetCheckpoint(deliveredOf(canonical, dispatched, s),
                                              blockNumber)
                         ELSE checkpoint[s]]
    /\ UNCHANGED <<pipeline, args, sent, pool, cache, lastCall, setups>>

NextReorg ==
    \/ \E sourceName \in SourceNames : FetchCompletes(sourceName)
    \/ DispatchSetup
    \/ \E sourceName \in SourceNames : DispatchEvent(sourceName)
    \/ \E reorgChain \in StreamChains : \E blockNumber \in 1..MaxStreamBlock :
          \E lost \in SUBSET {e \in canonical : /\ e.chainId = reorgChain
                                                 /\ e.blockNumber >= blockNumber} :
             Reorg(reorgChain, blockNumber, lost)

\* The clocks of the two chains agree: the checkpoints are per source.
InitReorg ==
    /\ InitEventStream
    /\ \A e \in canonical : e.timestamp = e.blockNumber

SpecReorg == InitReorg /\ [][NextReorg]_vars

\* The positions of the events of a source dispatched below a block.
PositionsBelow(sourceName, blockNumber) ==
    {eventPosition(e) : e \in {d \in SeqRange(deliveredOf(canonical, dispatched, sourceName)) :
                                 d.blockNumber < blockNumber}}

\* C23: an event dispatched for a source is above the source's checkpoint and
\* becomes the checkpoint; between reorgs a checkpoint never moves back; a
\* rollback to R sets the checkpoint of every source of the chain to the
\* greatest (blockNumber, logIndex) dispatched for it below R, to none when
\* there is none, and leaves the sources of other chains alone.
C23_CheckpointMonotone ==
    [][\A s \in SourceNames :
          /\ (reorgs' = reorgs /\ dispatched'[s] # dispatched[s]) =>
                /\ lastCall'.name = "event"
                /\ lastCall'.event.sourceName = s
                /\ SeqLess(checkpoint[s], eventPosition(lastCall'.event))
                /\ checkpoint'[s] = eventPosition(lastCall'.event)
          /\ (reorgs' = reorgs /\ dispatched'[s] = dispatched[s]) =>
                checkpoint'[s] = checkpoint[s]
          /\ (reorgs' # reorgs /\ ChainOf(s) # result'.chainId) =>
                checkpoint'[s] = checkpoint[s]
          /\ (reorgs' # reorgs /\ ChainOf(s) = result'.chainId) =>
                LET below == PositionsBelow(s, result'.blockNumber)
                IN /\ checkpoint'[s][1] < result'.blockNumber
                   /\ below = {} => checkpoint'[s] = NoCheckpoint
                   /\ below # {} =>
                         /\ checkpoint'[s] \in below
                         /\ \A p \in below \ {checkpoint'[s]} :
                               SeqLess(p, checkpoint'[s])]_vars

\* After a rollback to R that reset the checkpoint of a source to its event
\* below R, an event at or above R was dispatched for the source.
C23_Witness ==
    /\ result.kind = "reorg"
    /\ \E s \in SourceNames :
          /\ ChainOf(s) = result.chainId
          /\ dispatched[s] = 2
          /\ PositionsBelow(s, result.blockNumber) # {}
          /\ checkpoint[s][1] >= result.blockNumber
====
